---- MODULE Spec2Model ----
(***************************************************************************)
(* Model of function_app.py: a durable orchestration that fans out four    *)
(* PDF analysis activities, fans them in, builds a report and stores it in *)
(* Table Storage, plus the HTTP query endpoint over the stored reports.    *)
(*                                                                         *)
(* Encodings.  A Python dict is a TLA+ record.  A Python str that the code *)
(* splits or joins is a sequence of its pieces (a blob name is the         *)
(* sequence of its "/"-separated segments, extracted text is the sequence  *)
(* of the page texts that "\n".join glues).  A page text is the number of  *)
(* whitespace-delimited words on the page (0: no extractable text).  A     *)
(* uuid4 is a natural number drawn from a counter, so two draws never      *)
(* collide; datetime.utcnow() is a non-decreasing natural-number clock.    *)
(* A JSON text is the ordered sequence of its <<key, value>> members.      *)
(***************************************************************************)
EXTENDS Integers, Sequences, FiniteSets, TLC

\* ------------------------------------------------------------------ bounds
NumRuns == 2
MaxRestarts == 1
MaxClock == 1
MaxIds == 2
MaxStored == 11
MaxSpread == 3

Runs == 1 .. NumRuns

\* Spec follows one run through every blob, interleaving and restart
FirstRun == { 1 }

\* ------------------------------------------------------- program constants
TABLE_NAME == "PDFAnalysisResults"
PARTITION == "PDFAnalysis"

analysis_tasks ==
  << "extract_text", "extract_metadata", "analyze_statistics", "detect_sensitive_data" >>

AnalysisNames == { analysis_tasks[i] : i \in 1 .. 4 }
Activities == AnalysisNames \cup { "generate_report", "store_results" }

VARIABLES
  pc,          \* pc[r]: where the orchestrator generator of run r is suspended
  input,       \* input[r]: context.get_input() of run r
  act,         \* act[r][a]: none / scheduled / returned / completed
  outcome,     \* outcome[r][a]: what the last execution of a returned or raised
  actInput,    \* actInput[r][a]: the argument call_activity passed
  results,     \* results[r]: the list task_all yielded
  output,      \* output[r]: the value the orchestrator returned
  order,       \* order[r]: the analysis activities in order of completion
  schedCount,  \* schedCount[r][a]: number of call_activity(a) of run r
  execCount,   \* execCount[r][a]: number of executions of a for run r
  restarts,    \* worker restarts so far
  table,       \* Table Storage: (PartitionKey, RowKey) -> entity
  nextUuid,    \* source of uuid.uuid4()
  now,         \* datetime.utcnow()
  written,     \* written[r]: keys that executions of store_results of run r wrote
  genLog,      \* genLog[r]: <<input, report>> of every execution of generate_report
  trigger,     \* trigger[r]: the invocation of blob_trigger for document r and its outcome
  storeLog,    \* storeLog[r]: the storage fault ("" for none) of every execution of store_results
  stored,      \* stored[id]: the report that the last successful put of id stored
  lastPut,     \* the call of store_results, when the last step was one
  response     \* the HTTP response of get_results, when the last step was a request

vars == << pc, input, act, outcome, actInput, results, output, order, schedCount,
           execCount, restarts, table, nextUuid, now, written, genLog, storeLog,
           trigger, stored, lastPut, response >>

\* ------------------------------------------------------------ Python helpers
Return(v) == [kind |-> "return", value |-> v]
NoValue == [none |-> TRUE]
Raise(e) == [kind |-> "raise", error |-> e, value |-> NoValue]
NoOutcome == [kind |-> "none", value |-> NoValue]

\* dict.get(key, default)
Get(d, key, default) == IF key \in DOMAIN d THEN d[key] ELSE default

RECURSIVE Sum(_)
Sum(s) == IF s = << >> THEN 0 ELSE Head(s) + Sum(Tail(s))

NonEmptyPage(p) == p # 0

\* ------------------------------------------------------------------- inputs
\* What PdfReader makes of the bytes, per activity: "" when the activity's try
\* block runs through, otherwise str(e) of the exception raised inside it.
ParseFaults ==
  [ AnalysisNames -> { "", "EOF marker not found" } ]

BlobNames == { << "pdf", "a.pdf" >>, << "pdf", "in", "b.pdf" >> }

PageLists == { << >>, << 0, 3 >> }

PdfMetadata ==
  [ title |-> "T", author |-> "A", creator |-> "C", producer |-> "P",
    creation_date |-> "2024-01-15T00:00:00", modification_date |-> "2024-01-16T00:00:00" ]

Blobs ==
  [ name : BlobNames, fault : ParseFaults, pages : PageLists, length : { 2048 } ]


\* What the four regular expressions of detect_sensitive_data find in the text
\* of the pages: nothing in a document without text, one sample otherwise.
FindAll(kind, pages) ==
  IF Sum(pages) = 0 THEN << >>
  ELSE CASE kind = "emails" -> << "a@b.com" >>
         [] kind = "phones" -> << >>
         [] kind = "urls" -> << "https://x.com" >>
         [] kind = "dates" -> << "2024-01-15" >>

\* ------------------------------------------------------------ blob_trigger
\* round(len(blob_bytes) / 1024, 2), in hundredths of a KB
blob_size_kb(blob) == (blob.length * 100 + 512) \div 1024

\* list(blob_bytes) is kept as what the parser makes of the bytes
input_data(blob) ==
  [ blob_name |-> blob.name,
    blob_bytes |-> [fault |-> blob.fault, pages |-> blob.pages, length |-> blob.length],
    blob_size_kb |-> blob_size_kb(blob) ]

\* ------------------------------------------------------- analysis activities
\* extract_text without its try/except
extract_text_unguarded(inputData) ==
  LET fault == inputData.blob_bytes.fault["extract_text"]
      all_text == SelectSeq(inputData.blob_bytes.pages, NonEmptyPage)
  IN IF fault = ""
     THEN Return([ hasText |-> Len(all_text) # 0,
                   extractedText |-> all_text,
                   confidence |-> 0,
                   language |-> "unknown" ])
     ELSE Raise(fault)

extract_text(inputData) ==
  LET fault == inputData.blob_bytes.fault["extract_text"]
      all_text == SelectSeq(inputData.blob_bytes.pages, NonEmptyPage)
  IN IF fault = ""
     THEN Return([ hasText |-> Len(all_text) # 0,
                   extractedText |-> all_text,
                   confidence |-> 0,
                   language |-> "unknown" ])
     ELSE Return([ hasText |-> FALSE,
                   extractedText |-> << >>,
                   confidence |-> 0,
                   error |-> fault ])

extract_metadata(inputData) ==
  LET fault == inputData.blob_bytes.fault["extract_metadata"]
      metadata == PdfMetadata
  IN IF fault = ""
     THEN Return([ title |-> metadata.title,
                   author |-> metadata.author,
                   creator |-> metadata.creator,
                   producer |-> metadata.producer,
                   creation_date |-> metadata.creation_date,
                   mod_date |-> metadata.modification_date ])
     ELSE Return([ title |-> "", author |-> "", error |-> fault ])

\* a quotient is kept as numerator and denominator
analyze_statistics(inputData) ==
  LET fault == inputData.blob_bytes.fault["analyze_statistics"]
      page_count == Len(inputData.blob_bytes.pages)
      word_count == Sum(inputData.blob_bytes.pages)
  IN IF fault = ""
     THEN Return([ page_count |-> page_count,
                   word_count |-> word_count,
                   avg_words_per_page |->
                     IF page_count # 0 THEN [num |-> word_count, den |-> page_count]
                     ELSE [num |-> 0, den |-> 1],
                   estimated_reading_time_min |-> [num |-> word_count, den |-> 200] ])
     ELSE Return([ page_count |-> 0,
                   word_count |-> 0,
                   avg_words_per_page |-> [num |-> 0, den |-> 1],
                   estimated_reading_time_min |-> [num |-> 0, den |-> 1],
                   error |-> fault ])

detect_sensitive_data(inputData) ==
  LET fault == inputData.blob_bytes.fault["detect_sensitive_data"]
      text == inputData.blob_bytes.pages
  IN IF fault = ""
     THEN Return([ emails |-> FindAll("emails", text),
                   phones |-> FindAll("phones", text),
                   urls |-> FindAll("urls", text),
                   dates |-> FindAll("dates", text) ])
     ELSE Return([ emails |-> << >>, phones |-> << >>, urls |-> << >>, dates |-> << >>,
                   error |-> fault ])

RunAnalysis(a, inputData) ==
  CASE a = "extract_text" -> extract_text(inputData)
    [] a = "extract_metadata" -> extract_metadata(inputData)
    [] a = "analyze_statistics" -> analyze_statistics(inputData)
    [] a = "detect_sensitive_data" -> detect_sensitive_data(inputData)

\* ---------------------------------------------------------- generate_report
\* blob_name.split("/")[-1] if "/" in blob_name else blob_name
FileName(blob_name) ==
  IF Len(blob_name) > 1 THEN << blob_name[Len(blob_name)] >> ELSE blob_name

\* generate_report reading reportData["metadata"]["format"] instead of .get
generate_report_strict(reportData, uuid4, utcnow) ==
  IF "format" \in DOMAIN reportData.metadata /\ "hasText" \in DOMAIN reportData.text
  THEN Return([ id |-> uuid4,
                fileName |-> FileName(reportData.blob_name),
                blobPath |-> reportData.blob_name,
                analyzedAt |-> utcnow,
                analyses |-> [ text |-> reportData.text,
                               metadata |-> reportData.metadata,
                               statistics |-> reportData.statistics,
                               sensitive_data |-> reportData.sensitive_data ],
                summary |-> [ format |-> reportData.metadata.format,
                              hasText |-> reportData.text.hasText ] ])
  ELSE Raise("KeyError: 'format'")

\* generate_report taking the id of the report from the clock
generate_report_id_from_clock(reportData, uuid4, utcnow) ==
  Return([ id |-> utcnow,
           fileName |-> FileName(reportData.blob_name),
           blobPath |-> reportData.blob_name,
           analyzedAt |-> utcnow,
           analyses |-> [ text |-> reportData.text,
                          metadata |-> reportData.metadata,
                          statistics |-> reportData.statistics,
                          sensitive_data |-> reportData.sensitive_data ],
           summary |-> [ format |-> Get(reportData.metadata, "format", "Unknown"),
                         hasText |-> Get(reportData.text, "hasText", FALSE) ] ])

\* generate_report taking hasText from the absence of an error
generate_report_has_text_unless_error(reportData, uuid4, utcnow) ==
  Return([ id |-> uuid4,
           fileName |-> FileName(reportData.blob_name),
           blobPath |-> reportData.blob_name,
           analyzedAt |-> utcnow,
           analyses |-> [ text |-> reportData.text,
                          metadata |-> reportData.metadata,
                          statistics |-> reportData.statistics,
                          sensitive_data |-> reportData.sensitive_data ],
           summary |-> [ format |-> Get(reportData.metadata, "format", "Unknown"),
                         hasText |-> "error" \notin DOMAIN reportData.text ] ])

\* uuid4 and utcnow are the values uuid.uuid4() and datetime.utcnow() give
\* during this execution
generate_report(reportData, uuid4, utcnow) ==
  Return([ id |-> uuid4,
           fileName |-> FileName(reportData.blob_name),
           blobPath |-> reportData.blob_name,
           analyzedAt |-> utcnow,
           analyses |-> [ text |-> reportData.text,
                          metadata |-> reportData.metadata,
                          statistics |-> reportData.statistics,
                          sensitive_data |-> reportData.sensitive_data ],
           summary |-> [ format |-> Get(reportData.metadata, "format", "Unknown"),
                         hasText |-> Get(reportData.text, "hasText", FALSE) ] ])

\* ------------------------------------------------------------------- json
\* Members are written in the order of the dict; every dict of this program is
\* built with its keys in this order.
KeyOrder ==
  << "format", "hasText", "extractedText", "confidence", "language",
     "title", "author", "creator", "producer", "creation_date", "mod_date", "error" >>

RECURSIVE DumpMembers(_, _)
DumpMembers(d, keys) ==
  IF keys = << >> THEN << >>
  ELSE IF Head(keys) \in DOMAIN d
       THEN << << Head(keys), d[Head(keys)] >> >> \o DumpMembers(d, Tail(keys))
       ELSE DumpMembers(d, Tail(keys))

json_dumps(d) == DumpMembers(d, KeyOrder)

\* the value of a repeated key is the one of its last member
LastMember(s, k) ==
  s[CHOOSE i \in DOMAIN s : s[i][1] = k /\ \A j \in DOMAIN s : s[j][1] = k => j <= i][2]

json_loads(s) == [k \in { s[i][1] : i \in DOMAIN s } |-> LastMember(s, k)]

\* -------------------------------------------------------------- Table Storage
Key(pk, rk) == << pk, rk >>

\* TableClient.upsert_entity: insert, or replace the entity of the same key
upsert_entity(tbl, entity) ==
  LET k == Key(entity.PartitionKey, entity.RowKey)
  IN [x \in DOMAIN tbl \cup {k} |-> IF x = k THEN entity ELSE tbl[x]]

\* a RowKey drawn inside store_results instead of the id of the report
Entity_fresh_key(report) ==
  [ PartitionKey |-> PARTITION,
    RowKey |-> nextUuid + Cardinality(DOMAIN table),
    FileName |-> report.fileName,
    BlobPath |-> report.blobPath,
    AnalyzedAt |-> report.analyzedAt,
    Summary |-> json_dumps(report.summary),
    TextAnalysis |-> json_dumps(report.analyses.text),
    MetadataAnalysis |-> json_dumps(report.analyses.metadata) ]

Entity(report) ==
  [ PartitionKey |-> PARTITION,
    RowKey |-> report.id,
    FileName |-> report.fileName,
    BlobPath |-> report.blobPath,
    AnalyzedAt |-> report.analyzedAt,
    Summary |-> json_dumps(report.summary),
    TextAnalysis |-> json_dumps(report.analyses.text),
    MetadataAnalysis |-> json_dumps(report.analyses.metadata) ]

\* store_results without its try/except
store_results_unguarded(report, tbl, fault) ==
  IF fault = ""
  THEN [ out |-> Return([ id |-> report.id,
                          fileName |-> report.fileName,
                          status |-> "stored",
                          analyzedAt |-> report.analyzedAt,
                          summary |-> report.summary ]),
         table |-> upsert_entity(tbl, Entity(report)) ]
  ELSE [ out |-> Raise(fault), table |-> tbl ]

\* store_results with create_entity, which refuses an existing key
store_results_create(report, tbl, fault) ==
  LET exists == Key(PARTITION, report.id) \in DOMAIN tbl
  IN IF fault = "" /\ ~exists
     THEN [ out |-> Return([ id |-> report.id,
                             fileName |-> report.fileName,
                             status |-> "stored",
                             analyzedAt |-> report.analyzedAt,
                             summary |-> report.summary ]),
            table |-> upsert_entity(tbl, Entity(report)) ]
     ELSE [ out |-> Return([ id |-> Get(report, "id", "unknown"),
                             status |-> "error",
                             error |-> IF exists THEN "The specified entity already exists"
                                       ELSE fault ]),
            table |-> tbl ]

\* store_results failing after upsert_entity has written
store_results_write_then_fail(report, tbl, fault) ==
  IF fault = ""
  THEN [ out |-> Return([ id |-> report.id,
                          fileName |-> report.fileName,
                          status |-> "stored",
                          analyzedAt |-> report.analyzedAt,
                          summary |-> report.summary ]),
         table |-> upsert_entity(tbl, Entity(report)) ]
  ELSE [ out |-> Return([ id |-> Get(report, "id", "unknown"),
                          status |-> "error",
                          error |-> fault ]),
         table |-> upsert_entity(tbl, Entity(report)) ]

\* fault: "" when get_table_client and upsert_entity succeed, otherwise str(e)
\* of the exception one of them raised.  Yields the returned value and the table
\* after the call.
store_results(report, tbl, fault) ==
  IF fault = ""
  THEN [ out |-> Return([ id |-> report.id,
                          fileName |-> report.fileName,
                          status |-> "stored",
                          analyzedAt |-> report.analyzedAt,
                          summary |-> report.summary ]),
         table |-> upsert_entity(tbl, Entity(report)) ]
  ELSE [ out |-> Return([ id |-> Get(report, "id", "unknown"),
                          status |-> "error",
                          error |-> fault ]),
         table |-> tbl ]

StorageFaults == { "", "storage unavailable" }


\* -------------------------------------------------------------------- state
EmptyTable == [k \in {} |-> NoValue]

InitRuns ==
  /\ pc = [r \in Runs |-> "NotStarted"]
  /\ input = [r \in Runs |-> NoValue]
  /\ act = [r \in Runs |-> [a \in Activities |-> "none"]]
  /\ outcome = [r \in Runs |-> [a \in Activities |-> NoOutcome]]
  /\ actInput = [r \in Runs |-> [a \in Activities |-> NoValue]]
  /\ results = [r \in Runs |-> << >>]
  /\ output = [r \in Runs |-> NoValue]
  /\ order = [r \in Runs |-> << >>]
  /\ schedCount = [r \in Runs |-> [a \in Activities |-> 0]]
  /\ execCount = [r \in Runs |-> [a \in Activities |-> 0]]
  /\ restarts = 0
  /\ nextUuid = 1
  /\ now = 0
  /\ written = [r \in Runs |-> {}]
  /\ genLog = [r \in Runs |-> << >>]
  /\ storeLog = [r \in Runs |-> << >>]
  /\ trigger = [r \in Runs |-> NoValue]
  /\ lastPut = NoValue
  /\ response = NoValue

Init ==
  /\ InitRuns
  /\ table = EmptyTable
  /\ stored = EmptyTable

storeVars == << stored, lastPut, response >>

\* ------------------------------------------------------------- blob_trigger
\* fault: "" when client.start_new starts the run, otherwise str(e) of the
\* exception it raises
StartFaults == { "", "start_new failed" }

\* blob_trigger with a try/except around start_new that only logs
blob_trigger_swallowing(fault) == Return(NoValue)

\* how the invocation of blob_trigger ends: nothing catches what start_new raises
blob_trigger_outcome(fault) == IF fault = "" THEN Return(NoValue) ELSE Raise(fault)

\* the function runs to its end on the event of a new blob; the run it starts
\* is picked up by the orchestrator afterwards
blob_trigger(r, myblob, fault) ==
  /\ pc[r] = "NotStarted"
  /\ IF fault = ""
     THEN /\ input' = [input EXCEPT ![r] = input_data(myblob)]
          /\ pc' = [pc EXCEPT ![r] = "Started"]
     ELSE /\ pc' = [pc EXCEPT ![r] = "StartFailed"]
          /\ UNCHANGED input
  /\ trigger' = [trigger EXCEPT ![r] =
                   [blob |-> myblob, fault |-> fault, out |-> blob_trigger_outcome(fault)]]
  /\ UNCHANGED << act, outcome, actInput, results, output, order, schedCount, execCount,
                  restarts, table, nextUuid, now, written, genLog, storeLog, storeVars >>

\* ---------------------------------------------------- pdf_analyzer_orchestrator
\* context.call_activity(a, arg) of run r
call_activity(r, S, arg) ==
  /\ act' = [act EXCEPT ![r] = [a \in Activities |-> IF a \in S THEN "scheduled" ELSE @[a]]]
  /\ actInput' = [actInput EXCEPT ![r] = [a \in Activities |-> IF a \in S THEN arg ELSE @[a]]]
  /\ schedCount' = [schedCount EXCEPT ![r] =
                      [a \in Activities |-> IF a \in S THEN @[a] + 1 ELSE @[a]]]

\* the four call_activity of the list analysis_tasks, up to the yield
Orchestrator_FanOut(r) ==
  /\ pc[r] = "Started"
  /\ call_activity(r, AnalysisNames, input[r])
  /\ pc' = [pc EXCEPT ![r] = "FannedOut"]
  /\ UNCHANGED << input, outcome, results, output, order, execCount, restarts, table,
                  nextUuid, now, written, genLog, storeLog, trigger, storeVars >>

\* task_any in place of task_all: the first completion resumes the orchestrator
task_any_ready(r) == \E a \in AnalysisNames : act[r][a] = "completed"

\* the task context.task_all(analysis_tasks) has completed
task_all_ready(r) == \A a \in AnalysisNames : act[r][a] = "completed"

\* results taken in the order of completion
task_all_by_completion(r) ==
  [i \in 1 .. 4 |-> IF i <= Len(order[r]) THEN outcome[r][order[r][i]].value ELSE NoValue]

\* the list that the yield of task_all evaluates to
task_all(r) == [i \in 1 .. 4 |-> outcome[r][analysis_tasks[i]].value]

Raised(r, S) == \E a \in S : outcome[r][a].kind = "raise"

report_input(inputData, res) ==
  [ blob_name |-> inputData.blob_name,
    text |-> res[1],
    metadata |-> res[2],
    statistics |-> res[3],
    sensitive_data |-> res[4] ]

\* resumption at the yield of task_all, up to the yield of generate_report
Orchestrator_FanIn(r) ==
  /\ pc[r] = "FannedOut"
  /\ task_all_ready(r)
  /\ IF Raised(r, AnalysisNames)
     THEN /\ pc' = [pc EXCEPT ![r] = "Failed"]
          /\ UNCHANGED << act, actInput, schedCount, results >>
     ELSE /\ results' = [results EXCEPT ![r] = task_all(r)]
          /\ call_activity(r, {"generate_report"}, report_input(input[r], task_all(r)))
          /\ pc' = [pc EXCEPT ![r] = "FannedIn"]
  /\ UNCHANGED << input, outcome, output, order, execCount, restarts, table, nextUuid,
                  now, written, genLog, storeLog, trigger, storeVars >>

\* report = yield context.call_activity("generate_report", report_input)
YieldedReport(r) == outcome[r]["generate_report"].value

\* resumption at the yield of generate_report, up to the yield of store_results
Orchestrator_Reduced(r) ==
  /\ pc[r] = "FannedIn"
  /\ act[r]["generate_report"] = "completed"
  /\ IF Raised(r, {"generate_report"})
     THEN /\ pc' = [pc EXCEPT ![r] = "Failed"]
          /\ UNCHANGED << act, actInput, schedCount >>
     ELSE /\ call_activity(r, {"store_results"}, YieldedReport(r))
          /\ pc' = [pc EXCEPT ![r] = "Reduced"]
  /\ UNCHANGED << input, outcome, results, output, order, execCount, restarts, table,
                  nextUuid, now, written, genLog, storeLog, trigger, storeVars >>

\* the orchestrator returning the report instead of the record
YieldedRecord_report(r) == outcome[r]["generate_report"].value

\* record = yield context.call_activity("store_results", report)
YieldedRecord(r) == outcome[r]["store_results"].value

\* resumption at the yield of store_results: return record
Orchestrator_Return(r) ==
  /\ pc[r] = "Reduced"
  /\ act[r]["store_results"] = "completed"
  /\ IF Raised(r, {"store_results"})
     THEN /\ pc' = [pc EXCEPT ![r] = "Failed"]
          /\ UNCHANGED output
     ELSE /\ output' = [output EXCEPT ![r] = YieldedRecord(r)]
          /\ pc' = [pc EXCEPT ![r] = "Persisted"]
  /\ UNCHANGED << input, act, outcome, actInput, results, order, schedCount, execCount,
                  restarts, table, nextUuid, now, written, genLog, storeLog, trigger, storeVars >>

\* ------------------------------------------------------- activity executions
Returned(r, a, out) ==
  /\ act' = [act EXCEPT ![r][a] = "returned"]
  /\ outcome' = [outcome EXCEPT ![r][a] = out]
  /\ execCount' = [execCount EXCEPT ![r][a] = @ + 1]

Execute_analysis(r, a) ==
  /\ a \in AnalysisNames
  /\ act[r][a] = "scheduled"
  /\ Returned(r, a, RunAnalysis(a, actInput[r][a]))
  /\ UNCHANGED << pc, input, actInput, results, output, order, schedCount, restarts,
                  table, nextUuid, now, written, genLog, storeLog, trigger, storeVars >>

Execute_generate_report(r, utcnow) ==
  /\ act[r]["generate_report"] = "scheduled"
  /\ utcnow \in now .. MaxClock
  /\ LET out == generate_report(actInput[r]["generate_report"], nextUuid, utcnow)
     IN /\ Returned(r, "generate_report", out)
        /\ genLog' = [genLog EXCEPT ![r] =
                        Append(@, << actInput[r]["generate_report"], out.value >>)]
  /\ nextUuid' = nextUuid + 1
  /\ now' = utcnow
  /\ UNCHANGED << pc, input, actInput, results, output, order, schedCount, restarts,
                  table, written, storeLog, trigger, storeVars >>

Changed(before, after) ==
  { k \in DOMAIN after : k \notin DOMAIN before \/ after[k] # before[k] }

Execute_store_results(r, fault) ==
  /\ act[r]["store_results"] = "scheduled"
  /\ LET res == store_results(actInput[r]["store_results"], table, fault)
     IN /\ Returned(r, "store_results", res.out)
        /\ table' = res.table
        /\ written' = [written EXCEPT ![r] = @ \cup Changed(table, res.table)]
  /\ storeLog' = [storeLog EXCEPT ![r] = Append(@, fault)]
  /\ UNCHANGED << pc, input, actInput, results, output, order, schedCount, restarts,
                  nextUuid, now, genLog, trigger, storeVars >>

\* the completion of the activity is recorded in the history of the run
Complete(r, a) ==
  /\ act[r][a] = "returned"
  /\ act' = [act EXCEPT ![r][a] = "completed"]
  /\ order' = [order EXCEPT ![r] = IF a \in AnalysisNames THEN Append(@, a) ELSE @]
  /\ UNCHANGED << pc, input, outcome, actInput, results, output, schedCount, execCount,
                  restarts, table, nextUuid, now, written, genLog, storeLog, trigger, storeVars >>

\* The worker running activity a of run r stops before the completion is
\* recorded: the work item becomes visible again and is delivered once more.
Redeliver(r, a) ==
  /\ restarts < MaxRestarts
  /\ act[r][a] = "returned"
  /\ act' = [act EXCEPT ![r][a] = "scheduled"]
  /\ outcome' = [outcome EXCEPT ![r][a] = NoOutcome]
  /\ restarts' = restarts + 1
  /\ UNCHANGED << pc, input, actInput, results, output, order, schedCount, execCount,
                  table, nextUuid, now, written, genLog, storeLog, trigger, storeVars >>

\* ----------------------------------------------------------------- get_results
DEFAULT_LIMIT == 10

\* table_client.query_entities(...): the entities of the partition, by RowKey
RECURSIVE EntitiesByRowKey(_, _)
EntitiesByRowKey(tbl, keys) ==
  IF keys = {} THEN << >>
  ELSE LET k == CHOOSE x \in keys : \A y \in keys : x[2] <= y[2]
       IN << tbl[k] >> \o EntitiesByRowKey(tbl, keys \ {k})

query_entities(tbl, pk) == EntitiesByRowKey(tbl, { k \in DOMAIN tbl : k[1] = pk })

\* list.sort(key=analyzedAt) without reverse=True
InsertAsc(s, x) ==
  LET before == { i \in 1 .. Len(s) : s[i].analyzedAt <= x.analyzedAt }
      n == Cardinality(before)
  IN SubSeq(s, 1, n) \o << x >> \o SubSeq(s, n + 1, Len(s))

\* list.sort(key=analyzedAt, reverse=True): stable, so equal keys keep their order
InsertDesc(s, x) ==
  LET before == { i \in 1 .. Len(s) : s[i].analyzedAt >= x.analyzedAt }
      n == Cardinality(before)
  IN SubSeq(s, 1, n) \o << x >> \o SubSeq(s, n + 1, Len(s))

RECURSIVE SortDesc(_)
SortDesc(s) ==
  IF s = << >> THEN << >>
  ELSE InsertDesc(SortDesc(SubSeq(s, 1, Len(s) - 1)), s[Len(s)])

\* s[:limit]
Slice(s, limit) ==
  IF limit >= 0
  THEN SubSeq(s, 1, IF limit < Len(s) THEN limit ELSE Len(s))
  ELSE SubSeq(s, 1, IF Len(s) + limit > 0 THEN Len(s) + limit ELSE 0)

ListItem(entity) ==
  [ id |-> entity.RowKey,
    fileName |-> entity.FileName,
    analyzedAt |-> entity.AnalyzedAt,
    summary |-> json_loads(entity.Summary) ]

ListItems(entities) == [i \in 1 .. Len(entities) |-> ListItem(entities[i])]

FullResult(entity) ==
  [ id |-> entity.RowKey,
    fileName |-> entity.FileName,
    blobPath |-> entity.BlobPath,
    analyzedAt |-> entity.AnalyzedAt,
    summary |-> json_loads(entity.Summary),
    analyses |-> [ text |-> json_loads(entity.TextAnalysis),
                   metadata |-> json_loads(entity.MetadataAnalysis) ] ]

HttpResponse(body, status_code) == [body |-> body, status_code |-> status_code]

\* req.id: the route parameter ([present |-> FALSE] for /results);
\* req.limit: the query parameter, absent, an integer literal or other text;
\* fault: where Table Storage fails during this request ("" nowhere, "client"
\* in get_table_client, "read" in get_entity or query_entities).
\* The body is the value the handler hands to json.dumps.
get_results(req, tbl, fault) ==
  IF fault = "client"
  THEN HttpResponse([error |-> "storage unavailable"], 500)
  ELSE IF req.id.present
       THEN IF fault = "" /\ Key(PARTITION, req.id.value) \in DOMAIN tbl
            THEN HttpResponse(FullResult(tbl[Key(PARTITION, req.id.value)]), 200)
            ELSE HttpResponse([error |-> << "Result not found: ", req.id.value >>], 404)
       ELSE IF req.limit.kind = "text"
            THEN HttpResponse([error |-> "invalid literal for int() with base 10"], 500)
            ELSE IF fault = "read"
                 THEN HttpResponse([error |-> "storage unavailable"], 500)
                 ELSE LET limit == IF req.limit.kind = "absent" THEN DEFAULT_LIMIT
                                   ELSE req.limit.n
                          found == Slice(SortDesc(ListItems(query_entities(tbl, PARTITION))),
                                         limit)
                      IN HttpResponse([count |-> Len(found), results |-> found], 200)

QueryFaults == { "", "client", "read" }

Requests ==
  [ id : [present : {TRUE}, value : 1 .. MaxIds + 1], limit : { [kind |-> "absent"] } ]
  \cup [ id : { [present |-> FALSE] },
         limit : { [kind |-> "absent"], [kind |-> "text"] }
                 \cup [kind : {"int"}, n : -1 .. MaxIds] ]

\* ------------------------------------------------- the store and its callers
\* the analyses of a blob, as the orchestrator collects them
AnalysesOf(inputData) == [i \in 1 .. 4 |-> RunAnalysis(analysis_tasks[i], inputData).value]

ReportOf(myblob, uuid4, utcnow) ==
  generate_report(report_input(input_data(myblob), AnalysesOf(input_data(myblob))),
                  uuid4, utcnow).value

\* the blobs behind the reports of the store specification: one that parses
\* and has text, one that no activity can parse
StoreBlobs ==
  { b \in Blobs : /\ b.name = << "pdf", "a.pdf" >>
                  /\ \A a \in AnalysisNames : b.fault[a] = b.fault["extract_text"]
                  /\ (b.pages = << >>) = (b.fault["extract_text"] # "") }

Reports ==
  { ReportOf(b, id, t) : b \in StoreBlobs, id \in 1 .. MaxIds, t \in 0 .. MaxClock }

orchVars ==
  << pc, input, act, outcome, actInput, results, output, order, schedCount, execCount,
     restarts, nextUuid, now, written, genLog, storeLog, trigger >>

\* a call of the activity store_results
Put(report, fault) ==
  /\ LET res == store_results(report, table, fault)
     IN /\ table' = res.table
        /\ lastPut' = [ report |-> report, before |-> table, out |-> res.out,
                        fault |-> fault,
                        again |-> report.id \in DOMAIN stored /\ stored[report.id] = report ]
        /\ stored' = IF res.out.kind = "return" /\ res.out.value.status = "stored"
                     THEN [id \in DOMAIN stored \cup {report.id} |->
                             IF id = report.id THEN report ELSE stored[id]]
                     ELSE stored
  /\ response' = NoValue
  /\ UNCHANGED orchVars

\* a GET that deletes the entity it has read
Query_consuming(req, fault) ==
  /\ response' = [request |-> req, fault |-> fault, result |-> get_results(req, table, fault)]
  /\ lastPut' = NoValue
  /\ table' = IF req.id.present
              THEN [k \in DOMAIN table \ { Key(PARTITION, req.id.value) } |-> table[k]]
              ELSE table
  /\ UNCHANGED stored
  /\ UNCHANGED orchVars

\* a GET on /results or /results/{id}
Query(req, fault) ==
  /\ response' = [request |-> req, fault |-> fault, result |-> get_results(req, table, fault)]
  /\ lastPut' = NoValue
  /\ UNCHANGED << table, stored >>
  /\ UNCHANGED orchVars

NextStore ==
  \/ \E report \in Reports, fault \in StorageFaults : Put(report, fault)
  \/ \E req \in Requests, fault \in QueryFaults : Query(req, fault)

SpecStore == Init /\ [][NextStore]_vars

\* ------------------------------------------------- listings of a filled table
\* n reports with ids 1 .. n and pairwise distinct analyzedAt, in an order
\* that the spread k scatters over the ids
Stamp(id, k) == (id * k) % 17

ListedReport(id, k) ==
  ReportOf(CHOOSE b \in StoreBlobs : (b.pages = << >>) = (id % 2 = 0), id, Stamp(id, k))

RECURSIVE PutAll(_, _)
PutAll(n, k) ==
  IF n = 0 THEN EmptyTable
  ELSE store_results(ListedReport(n, k), PutAll(n - 1, k), "").table

InitList ==
  /\ InitRuns
  /\ \E n \in 0 .. MaxStored, k \in 1 .. MaxSpread :
       /\ table = PutAll(n, k)
       /\ stored = [id \in 1 .. n |-> ListedReport(id, k)]

ListRequests ==
  [ id : { [present |-> FALSE] },
    limit : { [kind |-> "absent"], [kind |-> "text"] }
            \cup [kind : {"int"}, n : -1 .. MaxStored + 1] ]

NextList ==
  \E req \in ListRequests, fault \in QueryFaults : Query(req, fault)

SpecList == InitList /\ [][NextList]_vars

Next ==
  \/ \E r \in FirstRun, myblob \in Blobs, fault \in StartFaults :
       blob_trigger(r, myblob, fault)
  \/ \E r \in FirstRun : Orchestrator_FanOut(r)
  \/ \E r \in FirstRun : Orchestrator_FanIn(r)
  \/ \E r \in FirstRun : Orchestrator_Reduced(r)
  \/ \E r \in FirstRun : Orchestrator_Return(r)
  \/ \E r \in FirstRun, a \in AnalysisNames : Execute_analysis(r, a)
  \/ \E r \in FirstRun, utcnow \in 0 .. MaxClock : Execute_generate_report(r, utcnow)
  \/ \E r \in FirstRun, fault \in StorageFaults : Execute_store_results(r, fault)
  \/ \E r \in FirstRun, a \in Activities : Complete(r, a)
  \/ \E r \in FirstRun, a \in Activities : Redeliver(r, a)

Spec == Init /\ [][Next]_vars

\* One run of a blob of StoreBlobs, in which every activity that is scheduled is
\* eventually executed, every execution that is not lost is eventually
\* recorded, and the orchestrator is eventually resumed when what it awaits is
\* there.
\* ------------------------------------------------------- concurrent runs
\* Several runs at once, each on a document that parses.  The analysis
\* activities read nothing but the input of their own run, so each run
\* executes them in the order of the fan-out; the runs interleave freely, and
\* generate_report and store_results, which draw the id and write the table,
\* may be delivered again.
RunBlobs ==
  { b \in Blobs : b.pages = << 0, 3 >> /\ \A a \in AnalysisNames : b.fault[a] = "" }

InTurn(r, a) ==
  \A i, j \in 1 .. 4 :
    (analysis_tasks[j] = a /\ i < j) => act[r][analysis_tasks[i]] = "completed"

NextRuns ==
  \/ \E r \in Runs, myblob \in RunBlobs : blob_trigger(r, myblob, "")
  \/ \E r \in Runs : Orchestrator_FanOut(r)
  \/ \E r \in Runs : Orchestrator_FanIn(r)
  \/ \E r \in Runs : Orchestrator_Reduced(r)
  \/ \E r \in Runs : Orchestrator_Return(r)
  \/ \E r \in Runs, a \in AnalysisNames : InTurn(r, a) /\ Execute_analysis(r, a)
  \/ \E r \in Runs, utcnow \in 0 .. MaxClock : Execute_generate_report(r, utcnow)
  \/ \E r \in Runs, fault \in StorageFaults : Execute_store_results(r, fault)
  \/ \E r \in Runs, a \in Activities : Complete(r, a)
  \/ \E r \in Runs, a \in { "generate_report", "store_results" } : Redeliver(r, a)

SpecRuns == Init /\ [][NextRuns]_vars

\* The documents of the fair specification: every combination of failing
\* analysis activities, for one document.
FaultBlobs == { b \in Blobs : b.name = << "pdf", "a.pdf" >> /\ b.pages = << 0, 3 >> }

NextFair ==
  \/ \E r \in FirstRun, myblob \in FaultBlobs, fault \in StartFaults :
       blob_trigger(r, myblob, fault)
  \/ \E r \in FirstRun : Orchestrator_FanOut(r)
  \/ \E r \in FirstRun : Orchestrator_FanIn(r)
  \/ \E r \in FirstRun : Orchestrator_Reduced(r)
  \/ \E r \in FirstRun : Orchestrator_Return(r)
  \/ \E r \in FirstRun, a \in AnalysisNames : Execute_analysis(r, a)
  \/ \E r \in FirstRun, utcnow \in 0 .. MaxClock : Execute_generate_report(r, utcnow)
  \/ \E r \in FirstRun, fault \in StorageFaults : Execute_store_results(r, fault)
  \/ \E r \in FirstRun, a \in Activities : Complete(r, a)
  \/ \E r \in FirstRun, a \in Activities : Redeliver(r, a)

Fairness ==
  \A r \in FirstRun :
    /\ WF_vars(Orchestrator_FanOut(r))
    /\ WF_vars(Orchestrator_FanIn(r))
    /\ WF_vars(Orchestrator_Reduced(r))
    /\ WF_vars(Orchestrator_Return(r))
    /\ \A a \in AnalysisNames : WF_vars(Execute_analysis(r, a))
    /\ WF_vars(\E utcnow \in 0 .. MaxClock : Execute_generate_report(r, utcnow))
    /\ WF_vars(\E fault \in StorageFaults : Execute_store_results(r, fault))
    /\ \A a \in Activities : WF_vars(Complete(r, a))

FairSpec == Init /\ [][NextFair]_vars /\ Fairness


\* ======================================================================
\* Properties
\* ======================================================================
Done(r, a) == act[r][a] \in { "returned", "completed" }
Last(s) == s[Len(s)]
Proceeded(r) == pc[r] \in { "FannedIn", "Reduced", "Persisted" }
Faulty(r, a) == input[r].blob_bytes.fault[a] # ""

\* C1: generate_report is never scheduled or run, and the orchestrator never
\* passes the fan-in, before the completions of all four analysis activities
\* are recorded.
C1_FanInBarrier ==
  \A r \in Runs :
    (Proceeded(r) \/ schedCount[r]["generate_report"] > 0
                  \/ execCount[r]["generate_report"] > 0)
      => /\ \A a \in AnalysisNames : act[r][a] = "completed" /\ outcome[r][a].kind = "return"
         /\ Len(order[r]) = 4

\* the reducer has run in a run whose analyses completed in the reverse order
C1_Witness ==
  \E r \in Runs :
    /\ execCount[r]["generate_report"] > 0
    /\ order[r] = << "detect_sensitive_data", "analyze_statistics", "extract_metadata",
                     "extract_text" >>

\* C2: whatever the order of completion, the fan-in yields four results and the
\* input of generate_report carries the result of extract_text under text, of
\* extract_metadata under metadata, of analyze_statistics under statistics and
\* of detect_sensitive_data under sensitive_data.
C2_FixedOrder ==
  \A r \in Runs :
    schedCount[r]["generate_report"] > 0
      => LET arg == actInput[r]["generate_report"]
         IN /\ Len(results[r]) = 4
            /\ results[r] = << arg.text, arg.metadata, arg.statistics, arg.sensitive_data >>
            /\ arg.text = outcome[r]["extract_text"].value
            /\ arg.text = extract_text(input[r]).value
            /\ arg.metadata = outcome[r]["extract_metadata"].value
            /\ arg.metadata = extract_metadata(input[r]).value
            /\ arg.statistics = outcome[r]["analyze_statistics"].value
            /\ arg.statistics = analyze_statistics(input[r]).value
            /\ arg.sensitive_data = outcome[r]["detect_sensitive_data"].value
            /\ arg.sensitive_data = detect_sensitive_data(input[r]).value

\* generate_report was scheduled after the metadata came in first and the text last
C2_Witness ==
  \E r \in Runs :
    /\ schedCount[r]["generate_report"] > 0
    /\ Len(order[r]) = 4
    /\ order[r][1] = "extract_metadata"
    /\ order[r][4] = "extract_text"
    /\ ~Faulty(r, "extract_text")

\* C3: the orchestrator schedules generate_report once, with the four collected
\* results, and store_results once, with the report that generate_report
\* returned and only after its completion; the run returns what store_results
\* returned.
C3_ReduceThenPersistOnce ==
  \A r \in Runs :
    /\ schedCount[r]["generate_report"] <= 1
    /\ schedCount[r]["store_results"] <= 1
    /\ schedCount[r]["generate_report"] = 1
         => actInput[r]["generate_report"] = report_input(input[r], results[r])
    /\ (schedCount[r]["store_results"] = 1 \/ execCount[r]["store_results"] > 0)
         => /\ act[r]["generate_report"] = "completed"
            /\ outcome[r]["generate_report"].kind = "return"
            /\ actInput[r]["store_results"] = outcome[r]["generate_report"].value
            /\ actInput[r]["store_results"] = Last(genLog[r])[2]
    /\ pc[r] = "Persisted"
         => /\ schedCount[r]["generate_report"] = 1
            /\ schedCount[r]["store_results"] = 1
            /\ act[r]["store_results"] = "completed"
            /\ output[r] = outcome[r]["store_results"].value
            /\ output[r].id = Last(genLog[r])[2].id
            /\ "status" \in DOMAIN output[r]

\* a run has returned its record
C3_Witness ==
  \E r \in Runs : pc[r] = "Persisted" /\ output[r].status = "stored"


\* the request GET /results/{id}
ById(id) == [id |-> [present |-> TRUE, value |-> id], limit |-> [kind |-> "absent"]]

PutStored == lastPut # NoValue /\ lastPut.out.value.status = "stored"

\* C4: after store_results has stored a report, GET /results/{id} with the id
\* it returned answers 200 with a report equal to the original: same id,
\* fileName, blobPath, analyzedAt, summary and all four analyses.
C4_RoundTrip ==
  PutStored
    => LET resp == get_results(ById(lastPut.out.value.id), table, "")
       IN resp.status_code = 200 /\ resp.body = lastPut.report

C6_NoDuplicateOnRedelivery ==
  /\ [](\A r \in Runs : Cardinality(written[r]) <= 1 /\ written[r] \subseteq DOMAIN table)
  /\ [][\A r \in Runs :
          (execCount'[r]["store_results"] > execCount[r]["store_results"]
           /\ written[r] # {}) => table' = table]_vars

\* store_results ran twice for one run, both times without a storage fault
C6_Witness ==
  \E r \in Runs :
    /\ storeLog[r] = << "", "" >>
    /\ execCount[r]["store_results"] = 2
    /\ Cardinality(written[r]) = 1

\* C7: two executions of generate_report on the same input give reports with
\* the same id and the same analyzedAt.
C7_ReplayStable ==
  \A r \in Runs : \A i, j \in DOMAIN genLog[r] :
    genLog[r][i][1] = genLog[r][j][1]
      => /\ genLog[r][i][2].id = genLog[r][j][2].id
         /\ genLog[r][i][2].analyzedAt = genLog[r][j][2].analyzedAt

\* the zero or empty result of an analysis activity
ZeroShaped(a, v) ==
  CASE a = "extract_text" -> v.hasText = FALSE /\ v.extractedText = << >>
    [] a = "extract_metadata" -> v.title = "" /\ v.author = ""
    [] a = "analyze_statistics" ->
         /\ v.page_count = 0
         /\ v.word_count = 0
         /\ v.avg_words_per_page.num = 0
         /\ v.estimated_reading_time_min.num = 0
    [] a = "detect_sensitive_data" ->
         v.emails = << >> /\ v.phones = << >> /\ v.urls = << >> /\ v.dates = << >>

\* C8: an analysis activity always returns, never raises; on a blob it cannot
\* parse it returns its zero-shaped result with a non-empty error, and the run
\* never fails: once all four completions are recorded the fan-in has four
\* results.
C8_TaskNeverAborts ==
  \A r \in Runs :
    /\ pc[r] # "Failed"
    /\ Proceeded(r) => Len(results[r]) = 4
    /\ \A a \in AnalysisNames :
         Done(r, a)
           => /\ outcome[r][a].kind = "return"
              /\ Faulty(r, a)
                   => /\ "error" \in DOMAIN outcome[r][a].value
                      /\ outcome[r][a].value.error # ""
                      /\ ZeroShaped(a, outcome[r][a].value)

\* the fan-in completed in a run where the text extraction failed and the
\* statistics did not
C8_Witness ==
  \E r \in Runs :
    /\ Proceeded(r)
    /\ Faulty(r, "extract_text")
    /\ ~Faulty(r, "analyze_statistics")
    /\ "error" \in DOMAIN results[r][1]
    /\ "error" \notin DOMAIN results[r][3]

AnalysisKey(a) ==
  CASE a = "extract_text" -> "text"
    [] a = "extract_metadata" -> "metadata"
    [] a = "analyze_statistics" -> "statistics"
    [] a = "detect_sensitive_data" -> "sensitive_data"

\* C9: whichever analysis activities failed, the run does not fail;
\* generate_report returns a report with all four results, those of the failed
\* activities carrying their error; a run that has returned has run
\* store_results; store_results returns status stored unless storage fails; and
\* when extract_text failed the summary returned and stored has hasText false.
C9_PartialStillStored ==
  \A r \in Runs :
    /\ pc[r] # "Failed"
    /\ Done(r, "generate_report")
         => /\ outcome[r]["generate_report"].kind = "return"
            /\ \A a \in AnalysisNames :
                 LET res == outcome[r]["generate_report"].value.analyses[AnalysisKey(a)]
                 IN /\ res = outcome[r][a].value
                    /\ Faulty(r, a) => "error" \in DOMAIN res /\ res.error # ""
    /\ pc[r] = "Persisted" => execCount[r]["store_results"] >= 1
    /\ (Done(r, "store_results") /\ Last(storeLog[r]) = "")
         => LET rec == outcome[r]["store_results"].value
            IN /\ rec.status = "stored"
               /\ Key(PARTITION, rec.id) \in DOMAIN table
               /\ Faulty(r, "extract_text")
                    => /\ rec.summary.hasText = FALSE
                       /\ json_loads(table[Key(PARTITION, rec.id)].Summary).hasText = FALSE

\* a run whose four analyses all failed has returned a stored record
C9_Witness ==
  \E r \in Runs :
    /\ pc[r] = "Persisted"
    /\ \A a \in AnalysisNames : Faulty(r, a)
    /\ output[r].status = "stored"

PersistFaultInBand(r) ==
  /\ pc[r] # "Failed"
  /\ schedCount[r]["store_results"] <= 1
  /\ (Done(r, "store_results") /\ Last(storeLog[r]) # "")
       => /\ outcome[r]["store_results"].kind = "return"
          /\ outcome[r]["store_results"].value =
               [ id |-> actInput[r]["store_results"].id,
                 status |-> "error",
                 error |-> Last(storeLog[r]) ]
          /\ pc[r] \in { "Reduced", "Persisted" }
          /\ pc[r] = "Persisted"
               => /\ output[r] = outcome[r]["store_results"].value
                  /\ \A a \in Activities : act[r][a] = "completed"

PersistFaultRecorded(r) ==
  act[r]["store_results"] = "completed" /\ Last(storeLog[r]) # ""

\* C10: when storage fails inside store_results the activity returns
\* {id, status: error, error} and does not raise; the run does not fail and
\* schedules store_results only once; and once that result is recorded the run
\* goes on to return it and stays there.
C10_PersistFaultInBand ==
  /\ [](\A r \in Runs : PersistFaultInBand(r))
  /\ \A r \in Runs :
       PersistFaultRecorded(r)
         ~> [](pc[r] = "Persisted" /\ output[r].status = "error")

\* a run has returned the error record of a failed write
C10_Witness ==
  \E r \in Runs :
    /\ pc[r] = "Persisted"
    /\ output[r].status = "error"
    /\ Last(storeLog[r]) # ""
    /\ table = EmptyTable


\* the response to a GET /results that was answered 200
Listed == response # NoValue /\ ~response.request.id.present
          /\ response.result.status_code = 200

LimitOf(req) == IF req.limit.kind = "absent" THEN 10 ELSE req.limit.n

SortedNewestFirst(s) ==
  \A i, j \in 1 .. Len(s) : i < j => s[i].analyzedAt >= s[j].analyzedAt

\* C11: a listing answered for a limit holds no more than limit results, its
\* count is the number of results, and the results are sorted by analyzedAt,
\* newest first.
C11_ListBounded ==
  Listed
    => LET body == response.result.body
       IN /\ Len(body.results) <= LimitOf(response.request)
          /\ body.count = Len(body.results)
          /\ SortedNewestFirst(body.results)

\* the response to a GET /results/{id}
Looked == response # NoValue /\ response.request.id.present

\* C13: GET /results/{id} answers 200 with the full report when the entity
\* exists, 404 with an error only when no entity has that id, and 500 with an
\* error when Table Storage fails during the request.
C13_NotFoundOnlyWhenAbsent ==
  Looked
    => LET id == response.request.id.value
           exists == Key(PARTITION, id) \in DOMAIN table
           res == response.result
       IN /\ res.status_code \in { 200, 404, 500 }
          /\ res.status_code = 200 => exists /\ res.body.id = id
          /\ res.status_code = 404 => ~exists /\ response.fault = ""
          /\ response.fault # "" => res.status_code = 500
          /\ res.status_code # 200 => "error" \in DOMAIN res.body

C20_QueryReadOnly ==
  [][(response' # NoValue /\ lastPut' = NoValue) => table' = table]_vars

\* a lookup of a stored report was answered 200
C20_Witness ==
  /\ Looked
  /\ response.result.status_code = 200
  /\ Key(PARTITION, response.request.id.value) \in DOMAIN table


Min(a, b) == IF a < b THEN a ELSE b

PartitionKeys == { k \in DOMAIN table : k[1] = PARTITION }

DistinctStamps ==
  \A x, y \in PartitionKeys : x # y => table[x].AnalyzedAt # table[y].AnalyzedAt

\* C12: with N stored reports of distinct analyzedAt, a listing for a limit
\* (10 when none is given) holds exactly min(limit, N) results; they are stored
\* reports, newest first, and every stored report left out is older than every
\* one listed.
C12_MostRecent ==
  (Listed /\ DistinctStamps /\ LimitOf(response.request) >= 0)
    => LET res == response.result.body.results
           ids == { res[i].id : i \in 1 .. Len(res) }
       IN /\ Len(res) = Min(LimitOf(response.request), Cardinality(PartitionKeys))
          /\ response.result.body.count = Len(res)
          /\ \A i \in 1 .. Len(res) :
               /\ Key(PARTITION, res[i].id) \in DOMAIN table
               /\ res[i].analyzedAt = table[Key(PARTITION, res[i].id)].AnalyzedAt
               /\ res[i].fileName = stored[res[i].id].fileName
               /\ res[i].summary = stored[res[i].id].summary
               /\ DOMAIN res[i] = { "id", "fileName", "analyzedAt", "summary" }
          /\ \A i, j \in 1 .. Len(res) : i < j => res[i].analyzedAt > res[j].analyzedAt
          /\ \A k \in PartitionKeys :
               k[2] \notin ids
                 => \A i \in 1 .. Len(res) : res[i].analyzedAt > table[k].AnalyzedAt

\* eleven reports are stored out of order and a listing without limit holds
\* the ten newest
C12_Witness ==
  /\ Listed
  /\ response.request.limit.kind = "absent"
  /\ Cardinality(PartitionKeys) = 11
  /\ Len(response.result.body.results) = 10
  /\ \E x, y \in PartitionKeys : x[2] < y[2] /\ table[x].AnalyzedAt > table[y].AnalyzedAt


Triggered(r) == trigger[r] # NoValue

TriggerOutcome(r) ==
  /\ Triggered(r) <=> pc[r] # "NotStarted"
  /\ \A a \in Activities : schedCount[r][a] <= 1
  /\ (Triggered(r) /\ trigger[r].fault = "")
       => /\ trigger[r].out.kind = "return"
          /\ pc[r] # "StartFailed"
          /\ DOMAIN input[r] = { "blob_name", "blob_bytes", "blob_size_kb" }
          /\ input[r].blob_name = trigger[r].blob.name
          /\ input[r].blob_bytes.pages = trigger[r].blob.pages
          /\ input[r].blob_bytes.fault = trigger[r].blob.fault
          /\ input[r].blob_bytes.length = trigger[r].blob.length
          /\ input[r].blob_size_kb * 1024 <= trigger[r].blob.length * 100 + 512
          /\ input[r].blob_size_kb * 1024 > trigger[r].blob.length * 100 - 512
  /\ (Triggered(r) /\ trigger[r].fault # "")
       => /\ trigger[r].out.kind = "raise"
          /\ trigger[r].out.error = trigger[r].fault
          /\ pc[r] = "StartFailed"
          /\ input[r] = NoValue
          /\ \A a \in Activities : act[r][a] = "none"

\* C15: an invocation of blob_trigger starts one run, with the name, the bytes
\* and the size of the blob as input, and ends while that run has not taken a
\* step; when start_new raises, the invocation raises the same error and no run
\* exists.
C15_TriggerStartsOneRun ==
  /\ [](\A r \in Runs : TriggerOutcome(r))
  /\ [][\A r \in Runs :
          (~Triggered(r) /\ trigger'[r] # NoValue /\ trigger'[r].fault = "")
            => /\ pc'[r] = "Started"
               /\ \A a \in Activities : act'[r][a] = "none"]_vars

\* blob_trigger has returned and the run it started is waiting for its analyses
C15_Witness ==
  \E r \in Runs :
    /\ Triggered(r)
    /\ trigger[r].out.kind = "return"
    /\ pc[r] = "FannedOut"
    /\ \E a \in AnalysisNames : act[r][a] = "scheduled"


InFlight(r, a) == act[r][a] \in { "scheduled", "returned" }

PhaseSteps ==
  { << "NotStarted", "Started" >>, << "NotStarted", "StartFailed" >>,
    << "Started", "FannedOut" >>, << "FannedOut", "FannedIn" >>,
    << "FannedIn", "Reduced" >>, << "Reduced", "Persisted" >> }

\* C16: the phase of a run only moves along Started, FannedOut, FannedIn,
\* Reduced, Persisted; generate_report is never scheduled or running while an
\* analysis activity of the run is, and store_results never while
\* generate_report or an analysis activity is.
C16_PhasesInOrder ==
  /\ [](\A r \in Runs :
          /\ InFlight(r, "generate_report")
               => /\ pc[r] = "FannedIn"
                  /\ \A a \in AnalysisNames : ~InFlight(r, a)
          /\ InFlight(r, "store_results")
               => /\ pc[r] = "Reduced"
                  /\ \A a \in Activities \ { "store_results" } : ~InFlight(r, a)
          /\ (\E a \in AnalysisNames : InFlight(r, a)) => pc[r] = "FannedOut")
  /\ [][\A r \in Runs : pc'[r] # pc[r] => << pc[r], pc'[r] >> \in PhaseSteps]_vars

\* store_results runs again after a restart while everything else is complete
C16_Witness ==
  \E r \in Runs :
    /\ act[r]["store_results"] = "scheduled"
    /\ execCount[r]["store_results"] = 1
    /\ pc[r] = "Reduced"

\* C18: the summary of every report that generate_report returns has hasText
\* equal to the hasText of the text result it was given (false when that
\* result has none) and format equal to the format of the metadata result when
\* it has one and "Unknown" otherwise.
C18_SummaryDerived ==
  \A r \in Runs : \A i \in DOMAIN genLog[r] :
    LET arg == genLog[r][i][1]
        report == genLog[r][i][2]
    IN /\ DOMAIN report.summary = { "format", "hasText" }
       /\ report.summary.hasText =
            (IF "hasText" \in DOMAIN arg.text THEN arg.text.hasText ELSE FALSE)
       /\ report.summary.format =
            (IF "format" \in DOMAIN arg.metadata THEN arg.metadata.format ELSE "Unknown")
       /\ arg.text = extract_text(input[r]).value
       /\ arg.metadata = extract_metadata(input[r]).value

\* a report was built for a blob that parses but has no page with text
C18_Witness ==
  \E r \in Runs :
    /\ genLog[r] # << >>
    /\ ~Faulty(r, "extract_text")
    /\ ~Faulty(r, "extract_metadata")
    /\ genLog[r][1][1].text.hasText = FALSE
    /\ genLog[r][1][2].summary = [format |-> "Unknown", hasText |-> FALSE]


Terminal(r) ==
  /\ pc[r] = "Persisted"
  /\ \A a \in Activities : act[r][a] = "completed"
  /\ output[r] = outcome[r]["store_results"].value
  /\ output[r].status \in { "stored", "error" }

\* C17: a run never fails, and under weak fairness of the activities and of the
\* orchestrator's resumptions every started run ends with all six activities
\* completed (so fan-in completed) and the result of store_results returned,
\* and stays there, whichever analysis activities failed and whether or not
\* the write failed.
C17_RunTerminates ==
  /\ [](\A r \in Runs : pc[r] # "Failed")
  /\ \A r \in Runs : pc[r] = "Started" ~> []Terminal(r)

\* a run returned after some, but not all, analysis activities failed and the
\* write failed too
C17_Witness ==
  \E r \in Runs :
    /\ Terminal(r)
    /\ Faulty(r, "extract_text")
    /\ ~Faulty(r, "analyze_statistics")
    /\ output[r].status = "error"


IdsOf(r) == { genLog[r][i][2].id : i \in DOMAIN genLog[r] }

NoPutFailed == \A r \in Runs : \A i \in DOMAIN storeLog[r] : storeLog[r][i] = ""

\* C14: whatever the interleaving of the runs, the report ids of two runs are
\* different and so are the keys they write; a put of one run changes no entity
\* another run has written; and while no put has failed the table holds one
\* entity for every run that has put, the entity of its own report, so one per
\* completed run.
C14_NoKeyContention ==
  /\ [](\A r1, r2 \in Runs :
          r1 # r2 => /\ IdsOf(r1) \cap IdsOf(r2) = {}
                     /\ written[r1] \cap written[r2] = {})
  /\ [](NoPutFailed =>
          /\ Cardinality(DOMAIN table) = Cardinality({ r \in Runs : storeLog[r] # << >> })
          /\ \A r \in Runs :
               pc[r] = "Persisted"
                 => /\ Key(PARTITION, output[r].id) \in DOMAIN table
                    /\ table[Key(PARTITION, output[r].id)] = Entity(actInput[r]["store_results"]))
  /\ [][\A r \in Runs :
          execCount'[r]["store_results"] > execCount[r]["store_results"]
            => \A k \in DOMAIN table :
                 (\E o \in Runs \ { r } : k \in written[o]) => table'[k] = table[k]]_vars

\* all runs completed after building their reports at the same time for the
\* same document, and each has its own entity
C14_Witness ==
  /\ \A r \in Runs : pc[r] = "Persisted" /\ output[r].status = "stored"
  /\ \A r1, r2 \in Runs : /\ actInput[r1]["store_results"].analyzedAt = actInput[r2]["store_results"].analyzedAt
                          /\ input[r1] = input[r2]
  /\ Cardinality(DOMAIN table) = NumRuns

====
